---- MODULE Spec2Model ----
(***************************************************************************)
(* A model of the purify validation library: the validator registry, the  *)
(* rule grammar parser, the built-in validators and ValidateStruct.       *)
(*                                                                         *)
(* Go strings that the code takes apart (rule specifications, rule names, *)
(* parameters, field values) are sequences of one-character strings.      *)
(* Strings the code only compares or copies (field names, json tags) are  *)
(* TLA+ strings.  A message is the format string of the call that built   *)
(* it together with the argument substituted for its %s verb.             *)
(***************************************************************************)
EXTENDS Integers, Sequences, FiniteSets, TLC

VARIABLES validators, inited, regLog, call, callReg, ruleSpec, parsed,
          locals, mapAccess, pending, crashed

vars == <<validators, inited, regLog, call, callReg, ruleSpec, parsed,
          locals, mapAccess, pending, crashed>>

(***************************************************************************)
(* Bounds of the model.                                                    *)
(***************************************************************************)
MaxSpecLen == 5
MaxFields == 2
MaxRegs == 2
NumThreads == 2

(***************************************************************************)
(* Character classes and string literals.                                  *)
(***************************************************************************)
Lower == {"a","b","c","d","e","f","g","h","i","j","k","l","m",
          "n","o","p","q","r","s","t","u","v","w","x","y","z"}
Upper == {"A","B","C","D","E","F","G","H","I","J","K","L","M",
          "N","O","P","Q","R","S","T","U","V","W","X","Y","Z"}
Digit == {"0","1","2","3","4","5","6","7","8","9"}

RECURSIVE IndexFrom(_, _, _)
IndexFrom(s, c, k) ==
    IF k > Len(s) THEN -1
    ELSE IF s[k] = c THEN k - 1
    ELSE IndexFrom(s, c, k + 1)

\* strings.Index(s, c) for a one-character c: the 0-based position of the
\* first c in s, or -1.
Index(s, c) == IndexFrom(s, c, 1)

\* s[from:] with a 0-based from.
SliceFrom(s, from) == SubSeq(s, from + 1, Len(s))

\* s[:to] with a 0-based, exclusive to.
SliceTo(s, to) == SubSeq(s, 1, to)

RECURSIVE Split(_, _)
\* strings.Split(s, sep) for a one-character sep.
Split(s, sep) ==
    LET i == Index(s, sep)
    IN  IF i = -1 THEN <<s>>
        ELSE <<SliceTo(s, i)>> \o Split(SliceFrom(s, i + 1), sep)

RECURSIVE TrimRight(_, _)
\* strings.TrimRight(s, cutset) for a one-character cutset.
TrimRight(s, c) ==
    IF Len(s) > 0 /\ s[Len(s)] = c THEN TrimRight(SliceTo(s, Len(s) - 1), c)
    ELSE s

(***************************************************************************)
(* The rule grammar parser.                                                *)
(***************************************************************************)
\* A parser that strips one closing parenthesis only.
parseRuleTrimOne(rule) ==
    LET idx == Index(rule, "(")
        rest == SliceFrom(rule, idx + 1)
    IN  IF idx = -1 THEN <<rule, <<>>>>
        ELSE <<SliceTo(rule, idx),
               IF Len(rest) > 0 /\ rest[Len(rest)] = ")"
               THEN SliceTo(rest, Len(rest) - 1) ELSE rest>>

\* parseRule: <<ruleName, param>>.
parseRule(rule) ==
    LET idx == Index(rule, "(")
    IN  IF idx = -1 THEN <<rule, <<>>>>
        ELSE <<SliceTo(rule, idx), TrimRight(SliceFrom(rule, idx + 1), ")")>>

\* rules := strings.Split(gformTag, "|")
SplitRules(gformTag) == Split(gformTag, "|")

\* The <<ruleName, param>> pairs the rule loop of ValidateStruct computes for
\* a tag, in the order it computes them.
ParseAll(gformTag) ==
    LET rules == SplitRules(gformTag)
    IN  [k \in 1..Len(rules) |-> parseRule(rules[k])]

(***************************************************************************)
(* Messages, number conversions and the validators.                        *)
(***************************************************************************)
\* fmt.Sprintf(format, arg) with at most one %s verb in format.
Sprintf(format, arg) == [fmt |-> format, arg |-> arg]

\* A string literal used as a message.
Msg(text) == [fmt |-> text, arg |-> <<>>]

\* The empty string, as a message.
NoMsg == Msg("")

DigitVal == ("0" :> 0) @@ ("1" :> 1) @@ ("2" :> 2) @@ ("3" :> 3) @@ ("4" :> 4) @@
            ("5" :> 5) @@ ("6" :> 6) @@ ("7" :> 7) @@ ("8" :> 8) @@ ("9" :> 9)

DigitChar == <<"0","1","2","3","4","5","6","7","8","9">>

RECURSIVE DigitsValue(_)
DigitsValue(s) ==
    IF Len(s) = 0 THEN 0
    ELSE DigitsValue(SliceTo(s, Len(s) - 1)) * 10 + DigitVal[s[Len(s)]]

\* n, _ := strconv.Atoi(param): an optional sign and decimal digits; 0 on a
\* syntax error.  (The values of the model stay far from the int range.)
Atoi(s) ==
    LET signed == Len(s) > 0 /\ s[1] \in {"+", "-"}
        body   == IF signed THEN Tail(s) ELSE s
    IN  IF Len(body) = 0 \/ \E k \in 1..Len(body) : body[k] \notin Digit THEN 0
        ELSE IF signed /\ s[1] = "-" THEN 0 - DigitsValue(body)
        ELSE DigitsValue(body)

RECURSIVE FormatNat(_)
FormatNat(n) ==
    IF n < 10 THEN <<DigitChar[n + 1]>>
    ELSE FormatNat(n \div 10) \o <<DigitChar[(n % 10) + 1]>>

\* The decimal form %v gives an int.
FormatInt(n) == IF n < 0 THEN <<"-">> \o FormatNat(0 - n) ELSE FormatNat(n)

Min(fieldValue, param) ==
    LET maxLength == Atoi(param)
    IN  IF Len(fieldValue) < maxLength THEN Sprintf("min length is %s", param)
        ELSE NoMsg

Max(fieldValue, param) ==
    LET maxLength == Atoi(param)
    IN  IF Len(fieldValue) > maxLength THEN Sprintf("max length is %s", param)
        ELSE NoMsg

Required(fieldValue, param) ==
    IF fieldValue = <<>> THEN Msg("required") ELSE NoMsg

EmailLocal == Lower \cup Upper \cup Digit \cup {".", "_", "%", "+", "-"}
EmailDomain == Lower \cup Upper \cup Digit \cup {".", "-"}

\* regexp.MatchString(`^[a-zA-Z0-9._%+-]+@[a-zA-Z0-9.-]+\.[a-zA-Z]{2,}$`, s)
EmailMatch(s) ==
    \E a \in 1..Len(s), d \in 1..Len(s) :
        /\ s[a] = "@" /\ s[d] = "."
        /\ a >= 2 /\ d >= a + 2 /\ Len(s) - d >= 2
        /\ \A k \in 1..(a - 1) : s[k] \in EmailLocal
        /\ \A k \in (a + 1)..(d - 1) : s[k] \in EmailDomain
        /\ \A k \in (d + 1)..Len(s) : s[k] \in Lower \cup Upper

Email(fieldValue, param) ==
    IF ~EmailMatch(fieldValue) THEN Msg("invalid email") ELSE NoMsg

\* The Required validator of the README's custom-validator example.
ReadmeRequired(fieldValue, param) ==
    IF fieldValue = <<>> THEN Msg("required field") ELSE NoMsg

\* The Password validator of the README.
Password(fieldValue, param) ==
    IF Len(fieldValue) < 8
    THEN Msg("password must be at least 8 characters long")
    ELSE IF ~\E k \in 1..Len(fieldValue) : fieldValue[k] \in Digit
    THEN Msg("password must contain at least one digit")
    ELSE IF ~\E k \in 1..Len(fieldValue) : fieldValue[k] \in Upper
    THEN Msg("password must contain at least one uppercase letter")
    ELSE NoMsg

\* validator(fieldValueStr, param) for the function value fn.
ValidatorCall(fn, fieldValue, param) ==
    CASE fn = "Min" -> Min(fieldValue, param)
      [] fn = "Max" -> Max(fieldValue, param)
      [] fn = "Required" -> Required(fieldValue, param)
      [] fn = "Email" -> Email(fieldValue, param)
      [] fn = "ReadmeRequired" -> ReadmeRequired(fieldValue, param)
      [] fn = "Password" -> Password(fieldValue, param)

(***************************************************************************)
(* Go values, as reflect describes them.  depth counts the pointers in     *)
(* front of the base value; nilptr says that the innermost pointer is nil. *)
(* The untyped nil has kind "invalid", as has the zero reflect.Value.       *)
(***************************************************************************)
StructVal(fields) ==
    [kind |-> "struct", depth |-> 0, nilptr |-> FALSE, n |-> 0, str |-> <<>>,
     fields |-> fields]

IntVal(n) ==
    [kind |-> "int", depth |-> 0, nilptr |-> FALSE, n |-> n, str |-> <<>>,
     fields |-> <<>>]

StrVal(s) ==
    [kind |-> "string", depth |-> 0, nilptr |-> FALSE, n |-> 0, str |-> s,
     fields |-> <<>>]

NilVal ==
    [kind |-> "invalid", depth |-> 0, nilptr |-> FALSE, n |-> 0, str |-> <<>>,
     fields |-> <<>>]

\* &v
PtrTo(v) == [v EXCEPT !.depth = @ + 1]

\* (*T)(nil), for the type of v
NilPtrTo(v) == [v EXCEPT !.depth = @ + 1, !.nilptr = TRUE]

\* reflect.Value.Kind
Kind(v) == IF v.depth > 0 THEN "ptr" ELSE v.kind

\* reflect.Value.Elem of a pointer: the zero Value for a nil pointer.
Elem(v) ==
    IF v.depth = 1 /\ v.nilptr THEN NilVal ELSE [v EXCEPT !.depth = @ - 1]

RECURSIVE DerefAll(_)
\* Follows every pointer.
DerefAll(v) == IF Kind(v) = "ptr" THEN DerefAll(Elem(v)) ELSE v

\* v := reflect.ValueOf(s); if v.Kind() == reflect.Ptr { v = v.Elem() }
Deref(v) == IF Kind(v) = "ptr" THEN Elem(v) ELSE v

\* fmt.Sprintf("%v", field.Interface()) for a string or an int field.
Sprint(v) == IF v.kind = "int" THEN FormatInt(v.n) ELSE v.str

\* A struct field: its Go name, whether it is exported, its json and purify
\* tag values ("" and <<>> when the tag is missing) and its value.
Field(name, exported, json, purify, value) ==
    [Name |-> name, exported |-> exported, json |-> json, purify |-> purify,
     value |-> value]

\* The key of a field in the report.
DisplayName(fieldType) ==
    IF fieldType.json = "" \/ fieldType.json = "-" THEN fieldType.Name
    ELSE fieldType.json

(***************************************************************************)
(* The registry.                                                           *)
(***************************************************************************)
EmptyMap == [x \in {} |-> "nil"]

\* A store that keeps an entry the map has already.
MapStoreIfAbsent(m, name, fn) ==
    [x \in DOMAIN m \cup {name} |-> IF x \in DOMAIN m THEN m[x] ELSE fn]

\* validators[name] = fn
MapStore(m, name, fn) ==
    [x \in DOMAIN m \cup {name} |-> IF x = name THEN fn ELSE m[x]]

\* validator, exists := validators[ruleName]
MapLookup(m, name) ==
    IF name \in DOMAIN m THEN [exists |-> TRUE, fn |-> m[name]]
    ELSE [exists |-> FALSE, fn |-> "nil"]

(***************************************************************************)
(* ValidateStruct, as a machine over the state of one call.  pc is the     *)
(* position of the call: "start" (lines 28-42), "field" (the head and the  *)
(* first part of the body of the field loop, and the return after it),     *)
(* "rule" (the head of the rule loop and parseRule), "lookup" (the map     *)
(* access and the call of the validator), "done" (returned), "panic".      *)
(* invoked lists the validator invocations of the call.                    *)
(***************************************************************************)
NilResult == [isNil |-> TRUE, Errors |-> EmptyMap, Message |-> NoMsg]

Report(errors, message) ==
    [isNil |-> FALSE, Errors |-> errors, Message |-> message]

ExpectedStruct ==
    Report(("" :> <<Msg("expected a struct")>>), Msg("expected a struct"))

IdleCall ==
    [pc |-> "idle", s |-> NilVal, v |-> NilVal, i |-> 0, r |-> 0,
     rules |-> <<>>, fieldName |-> "", fieldValueStr |-> <<>>,
     ruleName |-> <<>>, param |-> <<>>,
     validationErrors |-> EmptyMap, firstErrorMessage |-> NoMsg,
     result |-> NilResult, invoked |-> <<>>]

\* The call ValidateStruct(s), about to run.
NewCall(s) == [IdleCall EXCEPT !.pc = "start", !.s = s]

\* validationErrors[fieldName] = append(validationErrors[fieldName], errMsg)
MapAppend(m, k, e) ==
    [x \in DOMAIN m \cup {k} |->
        IF x = k THEN (IF k \in DOMAIN m THEN m[k] ELSE <<>>) \o <<e>>
        ELSE m[x]]

StartStep(st) ==
    LET v == Deref(st.s)
    IN  IF Kind(v) # "struct"
        THEN [st EXCEPT !.pc = "done", !.result = ExpectedStruct]
        ELSE [st EXCEPT !.pc = "field", !.v = v, !.i = 0,
                        !.validationErrors = EmptyMap,
                        !.firstErrorMessage = NoMsg]

FieldStep(st) ==
    IF st.i >= Len(st.v.fields)
    THEN [st EXCEPT !.pc = "done",
                    !.result = IF Cardinality(DOMAIN st.validationErrors) > 0
                               THEN Report(st.validationErrors,
                                           st.firstErrorMessage)
                               ELSE NilResult]
    ELSE LET fieldType == st.v.fields[st.i + 1]
         IN  IF fieldType.purify = <<>> THEN [st EXCEPT !.i = @ + 1]
             ELSE IF ~fieldType.exported THEN [st EXCEPT !.pc = "panic"]
             ELSE [st EXCEPT !.pc = "rule", !.r = 0,
                             !.fieldName = DisplayName(fieldType),
                             !.rules = SplitRules(fieldType.purify),
                             !.fieldValueStr = Sprint(fieldType.value)]

RuleStep(st) ==
    IF st.r >= Len(st.rules) THEN [st EXCEPT !.pc = "field", !.i = @ + 1]
    ELSE LET p == parseRule(st.rules[st.r + 1])
         IN  [st EXCEPT !.pc = "lookup", !.ruleName = p[1], !.param = p[2]]

\* The rest of the rule loop's body, keeping the last message as the
\* representative one.
LookupStepLast(st, look) ==
    LET errMsg == IF look.exists
                  THEN ValidatorCall(look.fn, st.fieldValueStr, st.param)
                  ELSE NoMsg
        called == [field |-> st.i, name |-> st.ruleName, fn |-> look.fn,
                   msg |-> errMsg]
        next == [st EXCEPT !.pc = "rule", !.r = @ + 1]
    IN  IF ~look.exists THEN next
        ELSE IF errMsg = NoMsg
        THEN [next EXCEPT !.invoked = Append(@, called)]
        ELSE [next EXCEPT
                !.invoked = Append(@, called),
                !.validationErrors = MapAppend(@, st.fieldName, errMsg),
                !.firstErrorMessage = errMsg]

\* The rest of the rule loop's body, for the outcome look of the map access.
LookupStep(st, look) ==
    LET errMsg == IF look.exists
                  THEN ValidatorCall(look.fn, st.fieldValueStr, st.param)
                  ELSE NoMsg
        called == [field |-> st.i, name |-> st.ruleName, fn |-> look.fn,
                   msg |-> errMsg]
        next == [st EXCEPT !.pc = "rule", !.r = @ + 1]
    IN  IF ~look.exists THEN next
        ELSE IF errMsg = NoMsg
        THEN [next EXCEPT !.invoked = Append(@, called)]
        ELSE [next EXCEPT
                !.invoked = Append(@, called),
                !.validationErrors = MapAppend(@, st.fieldName, errMsg),
                !.firstErrorMessage =
                    IF st.firstErrorMessage = NoMsg THEN errMsg ELSE @]

\* One step of a call that runs with the registry reg and no writer.
Step(st, reg) ==
    CASE st.pc = "start" -> StartStep(st)
      [] st.pc = "field" -> FieldStep(st)
      [] st.pc = "rule" -> RuleStep(st)
      [] st.pc = "lookup" -> LookupStep(st, MapLookup(reg, st.ruleName))

RECURSIVE Run(_, _)
\* The call st run to its end with the registry reg.
Run(st, reg) ==
    IF st.pc \in {"done", "panic"} THEN st ELSE Run(Step(st, reg), reg)

\* What the caller of a finished call observes.
Outcome(st) == [pc |-> st.pc, result |-> st.result]

(***************************************************************************)
(* Rule names, tags and values of the inputs.                              *)
(***************************************************************************)
S_min == <<"m","i","n">>
S_max == <<"m","a","x">>
S_required == <<"r","e","q","u","i","r","e","d">>
S_email == <<"e","m","a","i","l">>
S_password == <<"p","a","s","s","w","o","r","d">>
S_foo == <<"f","o","o">>
S_bar == <<"b","a","r">>

T_required_email == S_required \o <<"|">> \o S_email
T_min3 == S_min \o <<"(","3",")">>
T_min18_max99 == S_min \o <<"(","1","8",")","|">> \o S_max \o <<"(","9","9",")">>
T_required_foo == S_required \o <<"|">> \o S_foo
T_required_password == S_required \o <<"|">> \o S_password

V_not_an_email == <<"n","o","t","-","a","n","-","e","m","a","i","l">>
V_Al == <<"A","l">>
V_x == <<"x">>
V_Passw1 == <<"P","a","s","s","w","1">>
V_mail == <<"a","@","b",".","c","o">>

F_NameEmpty == Field("Name", TRUE, "name", S_required, StrVal(<<>>))
F_EmailBad == Field("Email", TRUE, "email", T_required_email, StrVal(V_not_an_email))
F_EmailEmpty == Field("Email", TRUE, "email", T_required_email, StrVal(<<>>))
F_LoginAl == Field("Login", TRUE, "name", T_min3, StrVal(V_Al))
F_Age == Field("Age", TRUE, "age", T_min18_max99, IntVal(25))
F_secret == Field("secret", FALSE, "", S_required, StrVal(V_x))
F_note == Field("note", FALSE, "", <<>>, StrVal(V_x))
F_Nick == Field("Nick", TRUE, "-", T_required_foo, StrVal(<<>>))
F_Password == Field("Password", TRUE, "password", T_required_password, StrVal(V_Passw1))
F_Mail == Field("Mail", TRUE, "", S_email, StrVal(V_mail))

FieldPool == {F_NameEmpty, F_EmailBad, F_EmailEmpty, F_LoginAl, F_Age, F_secret,
              F_note, F_Nick, F_Password, F_Mail}

\* The fields of a struct type have distinct Go names.
FieldLists ==
    {fs \in UNION {[1..n -> FieldPool] : n \in 0..MaxFields} :
        \A j, k \in 1..Len(fs) : fs[j].Name = fs[k].Name => j = k}

Structs == {StructVal(fs) : fs \in FieldLists}

NonStructs ==
    {NilVal, IntVal(5), StrVal(V_x), PtrTo(IntVal(5)),
     NilPtrTo(StructVal(<<F_NameEmpty>>)),
     PtrTo(PtrTo(StructVal(<<F_NameEmpty>>))),
     PtrTo(NilPtrTo(StructVal(<<F_NameEmpty>>)))}

Inputs == Structs \cup {PtrTo(StructVal(<<f>>)) : f \in FieldPool} \cup NonStructs

\* The RegisterValidator calls of the program that uses the package.
RegisterInputs ==
    {<<S_required, "ReadmeRequired">>, <<S_required, "Required">>,
     <<S_password, "Password">>}

\* The registrations of the package's init, in their order.
BuiltIns ==
    <<<<S_min, "Min">>, <<S_max, "Max">>, <<S_required, "Required">>,
      <<S_email, "Email">>>>

RECURSIVE RegisterAll(_, _)
\* The map after the RegisterValidator calls of the sequence regs.
RegisterAll(m, regs) ==
    IF regs = <<>> THEN m
    ELSE RegisterAll(MapStore(m, regs[1][1], regs[1][2]), Tail(regs))

Threads == 1..NumThreads

\* No RegisterValidator call in progress.
NoWrite == [active |-> FALSE, name |-> <<>>, fn |-> "nil"]

\* No access to the validators map in progress.
NoAccess == [op |-> "none", raced |-> FALSE]

(***************************************************************************)
(* The program run by one goroutine: the package's init, then              *)
(* RegisterValidator and ValidateStruct calls in any order.  call is the   *)
(* latest ValidateStruct call, until its caller drops the report, and      *)
(* callReg the registry that call ran with; regLog lists the               *)
(* RegisterValidator calls made so far.                                    *)
(***************************************************************************)
Init ==
    /\ validators = EmptyMap
    /\ inited = FALSE
    /\ regLog = <<>>
    /\ call = IdleCall
    /\ callReg = EmptyMap
    /\ ruleSpec = <<>>
    /\ parsed = <<>>
    /\ locals = [t \in Threads |-> IdleCall]
    /\ mapAccess = [t \in Threads |-> NoAccess]
    /\ pending = [t \in Threads |-> NoWrite]
    /\ crashed = FALSE

PkgInit ==
    /\ ~inited
    /\ inited' = TRUE
    /\ validators' = RegisterAll(validators, BuiltIns)
    /\ regLog' = regLog \o BuiltIns
    /\ UNCHANGED <<call, callReg, ruleSpec, parsed, locals, mapAccess, pending,
                   crashed>>

RegisterValidator(name, fn) ==
    /\ inited
    /\ Len(regLog) < Len(BuiltIns) + MaxRegs
    /\ validators' = MapStore(validators, name, fn)
    /\ regLog' = Append(regLog, <<name, fn>>)
    /\ UNCHANGED <<inited, call, callReg, ruleSpec, parsed, locals, mapAccess,
                   pending, crashed>>

ValidateStruct(s) ==
    /\ inited
    /\ call.pc = "idle"
    /\ call' = Run(NewCall(s), validators)
    /\ callReg' = validators
    /\ UNCHANGED <<validators, inited, regLog, ruleSpec, parsed, locals,
                   mapAccess, pending, crashed>>

\* The caller drops the report (or has recovered from the panic).
Drop ==
    /\ call.pc \in {"done", "panic"}
    /\ call' = IdleCall
    /\ callReg' = EmptyMap
    /\ UNCHANGED <<validators, inited, regLog, ruleSpec, parsed, locals,
                   mapAccess, pending, crashed>>

Next ==
    \/ PkgInit
    \/ \E reg \in RegisterInputs : RegisterValidator(reg[1], reg[2])
    \/ \E s \in Inputs : ValidateStruct(s)
    \/ Drop

Spec == Init /\ [][Next]_vars

(***************************************************************************)
(* The parser alone, on every rule specification of a bounded length over  *)
(* the characters that matter to it, and on the examples of the            *)
(* documentation.                                                          *)
(***************************************************************************)
ParseAlphabet == {"a", "(", ")", "|"}

T_min3_max20 == T_min3 \o <<"|">> \o S_max \o <<"(","2","0",")">>

RuleSpecs ==
    {s \in UNION {[1..n -> ParseAlphabet] : n \in 1..MaxSpecLen} : TRUE}
        \cup {T_min3_max20, S_email}

InitParse ==
    /\ validators = EmptyMap
    /\ inited = FALSE
    /\ regLog = <<>>
    /\ call = IdleCall
    /\ callReg = EmptyMap
    /\ ruleSpec \in RuleSpecs
    /\ parsed = <<>>
    /\ locals = [t \in Threads |-> IdleCall]
    /\ mapAccess = [t \in Threads |-> NoAccess]
    /\ pending = [t \in Threads |-> NoWrite]
    /\ crashed = FALSE

\* The rule loop's parsing of the tag ruleSpec.
ParseTag ==
    /\ parsed = <<>>
    /\ parsed' = ParseAll(ruleSpec)
    /\ UNCHANGED <<validators, inited, regLog, call, callReg, ruleSpec, locals,
                   mapAccess, pending, crashed>>

NextParse == ParseTag

SpecParse == InitParse /\ [][NextParse]_vars

(***************************************************************************)
(* Goroutines.  Each thread makes ValidateStruct calls, one step at a      *)
(* time, and (in SpecRace) RegisterValidator calls.  The package has no    *)
(* lock: an access to the validators map that overlaps a write of another  *)
(* thread is a data race, and its outcome is any of those the runtime can  *)
(* produce, the fatal error "concurrent map read and map write" included.  *)
(* mapAccess[t] is the access of t in progress, and whether it has         *)
(* overlapped a conflicting one.                                           *)
(***************************************************************************)
ConcInputs ==
    {StructVal(<<F_EmailEmpty>>), StructVal(<<F_LoginAl, F_NameEmpty>>),
     StructVal(<<F_secret>>), StructVal(<<F_Nick>>), IntVal(5)}

ConcLogs == {BuiltIns, BuiltIns \o <<<<S_required, "ReadmeRequired">>>>}

InitConc ==
    /\ regLog \in ConcLogs
    /\ validators = RegisterAll(EmptyMap, regLog)
    /\ inited = TRUE
    /\ call = IdleCall
    /\ callReg = EmptyMap
    /\ ruleSpec = <<>>
    /\ parsed = <<>>
    /\ locals = [t \in Threads |-> IdleCall]
    /\ mapAccess = [t \in Threads |-> NoAccess]
    /\ pending = [t \in Threads |-> NoWrite]
    /\ crashed = FALSE

\* op by t conflicts with the access of u in progress.
Conflicts(t, op, u) ==
    /\ u # t
    /\ mapAccess[u].op # "none"
    /\ op = "write" \/ mapAccess[u].op = "write"

\* mapAccess after t has begun the access op.
BeginAccess(t, op) ==
    [u \in Threads |->
        IF u = t
        THEN [op |-> op, raced |-> \E w \in Threads : Conflicts(t, op, w)]
        ELSE IF Conflicts(t, op, u) THEN [mapAccess[u] EXCEPT !.raced = TRUE]
        ELSE mapAccess[u]]

\* What the map access of line 65 by t can yield: the entry of the map when
\* no write overlapped it; when one did, the entry before or after the write,
\* no entry, or the runtime's fatal error.
LookOutcomes(t, name) ==
    LET clean == [exists |-> MapLookup(validators, name).exists,
                  fn |-> MapLookup(validators, name).fn, fatal |-> FALSE]
    IN  IF ~mapAccess[t].raced THEN {clean}
        ELSE {clean,
              [exists |-> FALSE, fn |-> "nil", fatal |-> FALSE],
              [exists |-> FALSE, fn |-> "nil", fatal |-> TRUE]}
             \cup {[exists |-> TRUE, fn |-> pending[w].fn, fatal |-> FALSE] :
                     w \in {u \in Threads :
                              pending[u].active /\ pending[u].name = name}}

CallBegin(t, s) ==
    /\ ~crashed
    /\ locals[t].pc = "idle"
    /\ ~pending[t].active
    /\ locals' = [locals EXCEPT ![t] = NewCall(s)]
    /\ UNCHANGED <<validators, inited, regLog, call, callReg, ruleSpec, parsed,
                   mapAccess, pending, crashed>>

\* A step of the call of t in which validationErrors is one map of the
\* package, shared by the calls.
CallStepShared(t) ==
    /\ ~crashed
    /\ locals[t].pc \in {"start", "field", "rule", "lookup"}
    /\ \E look \in LookOutcomes(t, locals[t].ruleName) :
          LET st == locals[t]
              next == IF st.pc = "lookup" THEN LookupStep(st, look)
                      ELSE Step(st, validators)
          IN  /\ crashed' = (st.pc = "lookup" /\ look.fatal)
              /\ locals' =
                   [u \in Threads |->
                      IF u = t THEN next
                      ELSE IF locals[u].pc \in {"field", "rule", "lookup"}
                      THEN [locals[u] EXCEPT
                              !.validationErrors = next.validationErrors]
                      ELSE locals[u]]
              /\ mapAccess' =
                   IF st.pc = "lookup"
                   THEN [mapAccess EXCEPT ![t] = NoAccess]
                   ELSE IF next.pc = "lookup" THEN BeginAccess(t, "read")
                   ELSE mapAccess
    /\ UNCHANGED <<validators, inited, regLog, call, callReg, ruleSpec, parsed,
                   pending>>

\* One step of the ValidateStruct call of t.  The step that ends at the map
\* access begins the read, the next one completes it.
CallStep(t) ==
    /\ ~crashed
    /\ locals[t].pc \in {"start", "field", "rule", "lookup"}
    /\ \E look \in LookOutcomes(t, locals[t].ruleName) :
          LET st == locals[t]
              next == IF st.pc = "lookup" THEN LookupStep(st, look)
                      ELSE Step(st, validators)
          IN  /\ crashed' = (st.pc = "lookup" /\ look.fatal)
              /\ locals' = [locals EXCEPT ![t] = next]
              /\ mapAccess' =
                   IF st.pc = "lookup"
                   THEN [mapAccess EXCEPT ![t] = NoAccess]
                   ELSE IF next.pc = "lookup" THEN BeginAccess(t, "read")
                   ELSE mapAccess
    /\ UNCHANGED <<validators, inited, regLog, call, callReg, ruleSpec, parsed,
                   pending>>

\* The caller of t drops the report (or has recovered from the panic).
CallReturn(t) ==
    /\ ~crashed
    /\ locals[t].pc \in {"done", "panic"}
    /\ locals' = [locals EXCEPT ![t] = IdleCall]
    /\ UNCHANGED <<validators, inited, regLog, call, callReg, ruleSpec, parsed,
                   mapAccess, pending, crashed>>

\* RegisterValidator(name, fn) by t: the map assignment begins.
RegisterBegin(t, name, fn) ==
    /\ ~crashed
    /\ locals[t].pc = "idle"
    /\ ~pending[t].active
    /\ pending' = [pending EXCEPT ![t] = [active |-> TRUE, name |-> name,
                                          fn |-> fn]]
    /\ mapAccess' = BeginAccess(t, "write")
    /\ UNCHANGED <<validators, inited, regLog, call, callReg, ruleSpec, parsed,
                   locals, crashed>>

\* The map assignment of t completes: the entry is stored, or, when the
\* write overlapped another access, the runtime may stop the program.
RegisterEnd(t) ==
    /\ ~crashed
    /\ pending[t].active
    /\ \E fatal \in (IF mapAccess[t].raced THEN BOOLEAN ELSE {FALSE}) :
          /\ crashed' = fatal
          /\ validators' = IF fatal THEN validators
                           ELSE MapStore(validators, pending[t].name,
                                         pending[t].fn)
    /\ pending' = [pending EXCEPT ![t] = NoWrite]
    /\ mapAccess' = [mapAccess EXCEPT ![t] = NoAccess]
    /\ UNCHANGED <<inited, regLog, call, callReg, ruleSpec, parsed, locals>>

NextConc ==
    \E t \in Threads :
        \/ \E s \in ConcInputs : CallBegin(t, s)
        \/ CallStep(t)
        \/ CallReturn(t)

\* Concurrent ValidateStruct calls, all registrations done before.
SpecConc == InitConc /\ [][NextConc]_vars

NextRace ==
    \E t \in Threads :
        \/ \E s \in ConcInputs : CallBegin(t, s)
        \/ CallStep(t)
        \/ CallReturn(t)
        \/ \E reg \in RegisterInputs : RegisterBegin(t, reg[1], reg[2])
        \/ RegisterEnd(t)

\* ValidateStruct and RegisterValidator calls of several goroutines.
SpecRace == InitConc /\ [][NextRace]_vars

(***************************************************************************)
(* What the report of a struct is to hold, stated over the fields and the  *)
(* rules rather than over the steps of the call.                           *)
(***************************************************************************)
Returned == call.pc = "done"
Finished == call.pc \in {"done", "panic"}

\* s is a struct or a non-nil pointer to a struct.
IsStructInput(s) == s.kind = "struct" /\ s.depth <= 1 /\ ~s.nilptr

\* The fields of a struct input.
FieldsOf(s) == s.fields

\* The non-empty messages of the registered validators of the rules of f,
\* in the order of the rules in the rule specification.
FieldMsgs(f, reg) ==
    IF f.purify = <<>> THEN <<>>
    ELSE LET rs == ParseAll(f.purify)
             msgs == [k \in 1..Len(rs) |->
                        IF rs[k][1] \in DOMAIN reg
                        THEN ValidatorCall(reg[rs[k][1]], Sprint(f.value), rs[k][2])
                        ELSE NoMsg]
         IN  SelectSeq(msgs, LAMBDA m : m # NoMsg)

RECURSIVE MsgsOf(_, _, _)
\* The messages of the fields of fs with a display name in names, in
\* declaration order.
MsgsOf(fs, reg, names) ==
    IF fs = <<>> THEN <<>>
    ELSE (IF DisplayName(fs[1]) \in names THEN FieldMsgs(fs[1], reg) ELSE <<>>)
         \o MsgsOf(Tail(fs), reg, names)

AllMsgs(fs, reg) == MsgsOf(fs, reg, {DisplayName(fs[k]) : k \in 1..Len(fs)})

NamedMsgs(fs, reg, d) == MsgsOf(fs, reg, {d})

\* C1, as the claim states it: the report of a struct has, for each field
\* with a non-empty message, under the field's display name exactly the
\* messages of that field's rules, in rule order, and Message is the first
\* message in field-then-rule order.
C1_ReportPerField ==
    (Returned /\ IsStructInput(call.s) /\ ~call.result.isNil) =>
        LET fs == FieldsOf(call.s)
        IN  /\ \A i \in 1..Len(fs) :
                 FieldMsgs(fs[i], callReg) # <<>> =>
                    /\ DisplayName(fs[i]) \in DOMAIN call.result.Errors
                    /\ call.result.Errors[DisplayName(fs[i])]
                         = FieldMsgs(fs[i], callReg)
            /\ call.result.Message = AllMsgs(fs, callReg)[1]

\* C1, amended: the report of a struct has, for each display name, exactly
\* the messages of the rules of all the fields with that display name, fields
\* in declaration order and rules in specification order; it has no other
\* key; and Message is the first message in field-then-rule order.
C1_ReportPerDisplayName ==
    (Returned /\ IsStructInput(call.s) /\ ~call.result.isNil) =>
        LET fs == FieldsOf(call.s)
            all == AllMsgs(fs, callReg)
        IN  /\ all # <<>>
            /\ DOMAIN call.result.Errors =
                 {DisplayName(fs[i]) : i \in
                    {j \in 1..Len(fs) : FieldMsgs(fs[j], callReg) # <<>>}}
            /\ \A d \in DOMAIN call.result.Errors :
                 call.result.Errors[d] = NamedMsgs(fs, callReg, d)
            /\ call.result.Message = all[1]

\* Scenario B, and a report with two fields under one display name.
C1_Witness ==
    /\ Returned
    /\ \E k \in 1..Len(call.s.fields) : call.s.fields[k] = F_EmailBad
    /\ "email" \in DOMAIN call.result.Errors
    /\ call.result.Errors["email"] = <<Msg("invalid email")>>
    /\ call.result.Message = Msg("invalid email")

\* C2, as the claim states it: a call on a struct returns nil exactly when no
\* invoked validator returned a non-empty message, and a report it returns
\* has a non-empty Errors map.
C2_NilIffNoMessage ==
    (Finished /\ IsStructInput(call.s)) =>
        /\ (Returned /\ call.result.isNil)
             <=> (\A k \in 1..Len(call.invoked) : call.invoked[k].msg = NoMsg)
        /\ (Returned /\ ~call.result.isNil) => DOMAIN call.result.Errors # {}

\* The rule specification spec with the rule u added at its end.
AddRule(spec, u) == IF spec = <<>> THEN u ELSE spec \o <<"|">> \o u

\* The input s with the rule u added to the rule specification of field i.
WithRule(s, i, u) == [s EXCEPT !.fields[i].purify = AddRule(@, u)]

\* Rule names that are no key of the registry.
UnknownNames == {S_foo, S_bar, <<"x","(","1",")">>} \ DOMAIN callReg

\* C3, as the claim states it: adding a rule with an unregistered name to
\* the rule specification of any field of the record changes nothing of what
\* the call returns.
C3_UnknownRuleNoOp ==
    (Finished /\ IsStructInput(call.s)) =>
        \A i \in 1..Len(call.s.fields) : \A u \in UnknownNames :
            Outcome(Run(NewCall(WithRule(call.s, i, u)), callReg))
              = Outcome(call)

\* The function of the latest RegisterValidator call for name in log.
RECURSIVE LastRegistered(_, _)
LastRegistered(log, name) ==
    IF log = <<>> THEN "nil"
    ELSE IF log[Len(log)][1] = name THEN log[Len(log)][2]
    ELSE LastRegistered(SubSeq(log, 1, Len(log) - 1), name)

RegisteredNames(log) == {log[k][1] : k \in 1..Len(log)}

\* C4: the registry maps exactly the names registered so far, each to the
\* function of the latest RegisterValidator call for it; a registration
\* leaves the other names alone and removes none; and a ValidateStruct call
\* invokes, for a rule, the function registered latest under its name.
C4_LastWriteWins ==
    /\ [](/\ DOMAIN validators = RegisteredNames(regLog)
          /\ \A name \in DOMAIN validators :
                validators[name] = LastRegistered(regLog, name))
    /\ [][/\ DOMAIN validators \subseteq DOMAIN validators'
          /\ (inited /\ regLog' # regLog) =>
                \A name \in DOMAIN validators :
                    name # regLog'[Len(regLog')][1]
                        => validators'[name] = validators[name]
          /\ (call.pc = "idle" /\ call'.pc = "done") =>
                \A k \in 1..Len(call'.invoked) :
                    call'.invoked[k].fn
                      = LastRegistered(regLog, call'.invoked[k].name)]_vars

\* An overwritten validator: "required" registered again after the package's
\* init, and a call after that.
C4_Witness ==
    /\ Len(regLog) > Len(BuiltIns)
    /\ regLog[Len(regLog)] = <<S_required, "ReadmeRequired">>
    /\ Returned
    /\ \E k \in 1..Len(call.invoked) : call.invoked[k].fn = "ReadmeRequired"

\* C5: a call on a value that is neither a struct nor a pointer to a struct
\* invokes no validator and returns the "expected a struct" report.
C5_ExpectedStruct ==
    (Finished /\ ~IsStructInput(call.s)) =>
        /\ Returned
        /\ call.invoked = <<>>
        /\ ~call.result.isNil
        /\ DOMAIN call.result.Errors = {""}
        /\ call.result.Errors[""] = <<Msg("expected a struct")>>
        /\ call.result.Message = Msg("expected a struct")

C5_Witness ==
    /\ Returned
    /\ call.s = PtrTo(PtrTo(StructVal(<<F_NameEmpty>>)))
    /\ call.result.Message = Msg("expected a struct")

\* C6, as the claim states it: no call panics, whatever its input.
C6_NeverPanics == call.pc # "panic"

\* The numeric reading of min(n) and max(n) holds of the int field f.
NumericInRange(f) ==
    /\ f.value.kind = "int"
    /\ f.exported
    /\ f.purify # <<>>
    /\ \A k \in 1..Len(ParseAll(f.purify)) :
          LET rule == ParseAll(f.purify)[k]
          IN  \/ rule[1] = S_min /\ f.value.n >= Atoi(rule[2])
              \/ rule[1] = S_max /\ f.value.n <= Atoi(rule[2])

\* C8, as the claim states it: with the built-in min and max, a struct whose
\* fields are numbers within the bounds of their min(n) and max(n) rules
\* has no error.
C8_NumericMinMax ==
    (/\ Finished /\ IsStructInput(call.s)
     /\ MapLookup(callReg, S_min) = [exists |-> TRUE, fn |-> "Min"]
     /\ MapLookup(callReg, S_max) = [exists |-> TRUE, fn |-> "Max"]
     /\ \A k \in 1..Len(call.s.fields) : NumericInRange(call.s.fields[k]))
        => Returned /\ call.result.isNil

\* The positions of the separators of spec.
Bars(spec) == {p \in 1..Len(spec) : spec[p] = "|"}

\* The position of the k-th separator of spec; 0 before the first segment
\* and Len(spec) + 1 after the last.
Bar(spec, k) ==
    IF k = 0 THEN 0
    ELSE IF k > Cardinality(Bars(spec)) THEN Len(spec) + 1
    ELSE CHOOSE p \in Bars(spec) :
            Cardinality({q \in Bars(spec) : q < p}) = k - 1

\* The k-th segment of spec.
Segment(spec, k) == SubSeq(spec, Bar(spec, k - 1) + 1, Bar(spec, k) - 1)

Chars(s) == {s[k] : k \in 1..Len(s)}

Closers(j) == [k \in 1..j |-> ")"]

\* C7: a non-empty rule specification with k separators yields k+1 rules, in
\* segment order; a segment without "(" yields (segment, ""); a segment with
\* "(" is the name, the first "(", the parameter and closing parentheses
\* only, the parameter ending in none.
C7_ParseGrammar ==
    parsed # <<>> =>
        /\ Len(parsed) = Cardinality(Bars(ruleSpec)) + 1
        /\ \A k \in 1..Len(parsed) :
              LET seg == Segment(ruleSpec, k)
                  name == parsed[k][1]
                  param == parsed[k][2]
              IN  IF "(" \notin Chars(seg)
                  THEN name = seg /\ param = <<>>
                  ELSE /\ "(" \notin Chars(name)
                       /\ param = <<>> \/ param[Len(param)] # ")"
                       /\ \E j \in 0..Len(seg) :
                             seg = name \o <<"(">> \o param \o Closers(j)

\* The example of the documentation, and a parameter with no closing
\* parenthesis.
C7_Witness ==
    \/ /\ ruleSpec = T_min3_max20
       /\ parsed = <<<<S_min, <<"3">>>>, <<S_max, <<"2","0">>>>>>
    \/ /\ ruleSpec = <<"a","(","a","|","a">>
       /\ parsed = <<<<<<"a">>, <<"a">>>>, <<<<"a">>, <<>>>>>>

\* C9: every finished call of a thread has the outcome of the same call run
\* alone with the same registry, and the calls leave the registry as the
\* registrations made before them built it.
C9_CallsIndependent ==
    /\ validators = RegisterAll(EmptyMap, regLog)
    /\ \A t \in Threads :
          locals[t].pc \in {"done", "panic"} =>
             Outcome(locals[t])
               = Outcome(Run(NewCall(locals[t].s), validators))

\* Two calls finished with reports, one of them begun while the other ran.
C9_Witness ==
    \E t, u \in Threads :
        /\ t # u
        /\ locals[t].pc = "done" /\ ~locals[t].result.isNil
        /\ locals[t].s = StructVal(<<F_LoginAl, F_NameEmpty>>)
        /\ locals[u].pc = "done" /\ ~locals[u].result.isNil
        /\ locals[u].s = StructVal(<<F_EmailEmpty>>)

\* C10, as the claim states it: no write of the validators map is in
\* progress while the lookup of a ValidateStruct call of another thread reads
\* the map, and no such lookup has overlapped a write, so that each lookup
\* sees the map before or after a registration.
C10_RegistryProtected ==
    \A t \in Threads :
        mapAccess[t].op = "read" =>
            /\ ~mapAccess[t].raced
            /\ \A u \in Threads : u # t => mapAccess[u].op # "write"

====
